---------------------------- MODULE Spec2Model ----------------------------
(***************************************************************************)
(* A model of pdf_tool.py: the extraction worker PDFProcessingThread.run,  *)
(* the front end's process_files / processing_finished, and the region     *)
(* editor of PDFMarkupTool (selected_areas, rect_items, rect_list) with   *)
(* its save_template.                                                      *)
(***************************************************************************)
EXTENDS Integers, Sequences, FiniteSets, TLC

VARIABLES
    threads,        \* run id -> the state of that PDFProcessingThread
    started,        \* number of PDFProcessingThread objects process_files created
    self_thread,    \* PDFMarkupTool.thread: the run id the attribute refers to (0: unset)
    gui_queue,      \* queued signal deliveries from worker threads to the GUI thread
    progress_bar,   \* QProgressBar value
    success_boxes,  \* run id -> number of "Processing Complete" boxes shown for it
    template_dir,   \* which collection of template files the disk holds
    pdf_document,   \* PDFMarkupTool.pdf_document: page count of the loaded document, 0 = None
    current_page_index,
    selected_areas, \* regions in document space
    rect_items,     \* the QGraphicsRectItems of the scene, parallel to selected_areas
    rect_list,      \* the rows of the QListWidget: label number and captured index
    scene_labels,   \* the number labels drawn in the scene
    scale_factor,   \* zoom factor, an exact fraction <<numerator, denominator>>
    start_pos,      \* drag start point in the scene, or NoPos
    is_shift_pressed,
    remove_outcome, \* the outcome of the last remove_rect call
    saved_file,     \* the JSON value in the file save_template wrote, or NoTemplate
    validated       \* the result of the last validation (pure-function specification)

worker_vars == <<threads, started, self_thread, gui_queue, progress_bar, success_boxes,
                 template_dir>>
editor_vars == <<pdf_document, current_page_index, selected_areas, rect_items,
                 rect_list, scene_labels, scale_factor, start_pos, is_shift_pressed,
                 remove_outcome, saved_file>>
vars == <<threads, started, self_thread, gui_queue, progress_bar, success_boxes,
          template_dir,
          pdf_document, current_page_index, selected_areas, rect_items,
          rect_list, scene_labels, scale_factor, start_pos, is_shift_pressed,
          remove_outcome, saved_file, validated>>

(***************************************************************************)
(* Bounds of the model.                                                    *)
(***************************************************************************)
\* documents selected for one run
MaxDocs == 3
\* pages of a template
MaxPages == 2
\* areas of a template, over all its pages
MaxAreas == 3
\* pages of a document
MaxPageCount == 2
\* runs the front end starts
MaxRuns == 2
\* regions of the editor, and rows of its list
MaxRegions == 3
\* wheel events
MaxZoom == 1

Runs == 1 .. MaxRuns

(***************************************************************************)
(* JSON values as json.load returns them: a list, a dict, or anything      *)
(* else (string, number, bool, None).                                      *)
(***************************************************************************)
Scalar == [type |-> "scalar"]
List(items) == [type |-> "list", items |-> items]
Dict(members) == [type |-> "dict", members |-> members]
EmptyMembers == [k \in {} |-> 0]
Unreadable == [type |-> "unreadable"]   \* open() or json.load raises
NoTemplate == [type |-> "unset"]        \* the local `template` before line 25

IsList(v) == v.type = "list"
IsDict(v) == v.type = "dict"
\* Python's `k in d` for a dict d
HasKey(d, k) == k \in DOMAIN d.members

Restrict(f, K) == [k \in K |-> f[k]]

(***************************************************************************)
(* Template validation, lines 27-37, in the order the code checks.         *)
(***************************************************************************)
OK == "ok"
MsgNotList == "Template file must contain a list of pages."
MsgPageKeys == "Each page in the template must contain 'page' and 'coordinates' keys."
MsgCoordsNotList == "The 'coordinates' key must be associated with a list of areas."
MsgAreaKeys == "Each area must contain 'x', 'y', 'width', and 'height' keys."
MsgJson == "json"
MsgOpen == "cannot open document"
MsgPageIndex == "page not in document"
MsgWrite == "cannot write output"

AreaKeysWithoutHeight == {"x", "y", "width"}
AreaKeys == {"x", "y", "width", "height"}

AreaOk(area) == IsDict(area) /\ \A k \in AreaKeys : HasKey(area, k)

RECURSIVE CheckAreas(_, _)
CheckAreas(areas, i) ==
    IF i > Len(areas) THEN OK
    ELSE IF ~AreaOk(areas[i]) THEN MsgAreaKeys
    ELSE CheckAreas(areas, i + 1)

PageKeysOk(page) == IsDict(page) /\ HasKey(page, "page") /\ HasKey(page, "coordinates")

CheckFirstPageOnly(pages, i) ==
    IF i > Len(pages) THEN OK
    ELSE LET page == pages[i] IN
         IF ~PageKeysOk(page) THEN MsgPageKeys
         ELSE IF ~IsList(page.members.coordinates) THEN MsgCoordsNotList
         ELSE CheckAreas(page.members.coordinates.items, 1)

RECURSIVE CheckPages(_, _)
CheckPages(pages, i) ==
    IF i > Len(pages) THEN OK
    ELSE LET page == pages[i] IN
         IF ~PageKeysOk(page) THEN MsgPageKeys
         ELSE IF ~IsList(page.members.coordinates) THEN MsgCoordsNotList
         ELSE LET r == CheckAreas(page.members.coordinates.items, 1) IN
              IF r # OK THEN r ELSE CheckPages(pages, i + 1)

ValidateTemplate(template) ==
    IF ~IsList(template) THEN MsgNotList
    ELSE CheckPages(template.items, 1)

(***************************************************************************)
(* Input sets.  A template area carries its coordinates; a document is     *)
(* its path and its page count, 0 pages standing for a file that           *)
(* fitz.Document cannot open.                                              *)
(***************************************************************************)
FullArea(a) == [x |-> a, y |-> a, width |-> 1, height |-> 1]
PageNums == 0 .. MaxPageCount - 1
\* the well-formed pages with exactly k areas, the j-th area at origin (j, j)
ValidPagesOf(k) ==
    {Dict([page |-> p, coordinates |-> List([j \in 1 .. k |-> Dict(FullArea(j))])]) :
        p \in PageNums}

\* the sequences of at most n pages drawn from pagesOf[0], pagesOf[1], ...
\* (pages by number of areas) that list at most a areas in total
RECURSIVE PageSeqs(_, _, _)
PageSeqs(pagesOf, n, a) ==
    {<<>>} \cup
    (IF n = 0 THEN {}
     ELSE UNION {{<<p>> \o rest : rest \in PageSeqs(pagesOf, n - 1, a - k),
                                  p \in pagesOf[k]} : k \in 0 .. a})

\* the well-formed templates of at most n pages and a areas
ValidTemplates(n, a) ==
    {List(ps) : ps \in PageSeqs([k \in 0 .. a |-> ValidPagesOf(k)], n, a)}

ReplaceLast(s, e) == [s EXCEPT ![Len(s)] = e]

\* a valid area with one key deleted, or not a dict at all
BrokenAreas(area) ==
    {Scalar} \cup {Dict(Restrict(area.members, AreaKeys \ {k})) : k \in AreaKeys}

\* a valid page broken in one place: the page itself, or its last area
BrokenPages(page) ==
    LET m == page.members
        c == m.coordinates.items
    IN  {Scalar,
         Dict([coordinates |-> m.coordinates]),
         Dict([page |-> m.page]),
         Dict([page |-> m.page, coordinates |-> Scalar])}
        \cup (IF c = <<>> THEN {}
              ELSE {Dict([page |-> m.page,
                          coordinates |-> List(ReplaceLast(c, b))]) :
                       b \in BrokenAreas(c[Len(c)])})

\* valid templates broken in their last page
BrokenTemplates(n, a) ==
    UNION {{List(ReplaceLast(t.items, b)) : b \in BrokenPages(t.items[Len(t.items)])} :
              t \in {u \in ValidTemplates(n, a) : u.items # <<>>}}

\* what a template file can hold
TemplateFiles(n, a) ==
    ValidTemplates(n, a) \cup BrokenTemplates(n, a)
        \cup {Scalar, Dict(EmptyMembers), Unreadable}

\* two sample files: a one-page, one-area template and a non-list value
OnePageTemplate == List(<<Dict([page |-> 0, coordinates |-> List(<<Dict(FullArea(1))>>)])>>)
SampleTemplates == {OnePageTemplate, Scalar}

\* the template files of a directory: "any" holds every file within the
\* bounds, "short" every file of at most one page and one area, "samples"
\* the two sample files
TemplatesIn(dir) ==
    IF dir = "any" THEN TemplateFiles(MaxPages, MaxAreas)
    ELSE IF dir = "short" THEN TemplateFiles(1, 1)
    ELSE SampleTemplates

DocFile(path, n) == [path |-> path, pages |-> n]
NoDoc == DocFile(0, 0)
\* the ordered selections of the file dialog, as paths: never empty (line 162)
PathLists == {[i \in 1 .. n |-> i] : n \in 1 .. MaxDocs}
\* what Document(pdf_path) can find at a path
PageCounts == 0 .. MaxPageCount


(***************************************************************************)
(* PDFProcessingThread: one record per thread object.                      *)
(*   pc       where run() stands                                           *)
(*   doc      the local `doc`; fresh: the Document line 42 has constructed *)
(*            and not yet bound to `doc`                                   *)
(*   opened   ids of the documents whose handle is open                    *)
(*   tpos     position of the loop of line 44 in the template              *)
(*   signals  every signal the thread has emitted, in order                *)
(*   output   the file at output_path                                      *)
(*   open_calls  number of Document(...) calls made                        *)
(***************************************************************************)
NotWritten == [exists |-> FALSE, rows |-> <<>>]
Written(rows) == [exists |-> TRUE, rows |-> rows]

Idle == [pc |-> "none", pdf_paths |-> <<>>,
         template |-> NoTemplate, data |-> <<>>, idx |-> 0, doc |-> NoDoc,
         fresh |-> NoDoc, tpos |-> 0, opened |-> {}, open_calls |-> 0,
         error |-> "", signals |-> <<>>, output |-> NotWritten]

\* __init__ (lines 16-20) followed by start() (line 172)
NewThread(pdf_paths) ==
    [Idle EXCEPT !.pc = "load", !.pdf_paths = pdf_paths]

ProgressSignal(w, v) == [sig |-> "progress", run |-> w, value |-> v]
FinishedSignal(w) == [sig |-> "finished", run |-> w, value |-> 0]

\* int((idx + 1) / len(self.pdf_paths) * 100) in IEEE doubles: the floor of
\* 100*k/n, except that for the quotients 0.29, 0.57 and 0.58 the product
\* with 100 falls just below the integer and int() truncates it.
FloatShortfalls == {29, 57, 58}
PercentOfIndex(k, n) == (100 * (k - 1)) \div n
Percent(k, n) ==
    LET q == (100 * k) \div n IN
    IF (100 * k) % n = 0 /\ q \in FloatShortfalls THEN q - 1 ELSE q

\* Rect(x, y, x + width, y + height), lines 51-56
Rect(area) ==
    LET a == area.members IN <<a.x, a.y, a.x + a.width, a.y + a.height>>

\* the text of lines 57-58: determined by the document, the page and the clip
ExtractedText(f, page_num, rect) == <<f.path, page_num>> \o rect
\* data.append(""), line 62
EmptyRow == <<>>

PageRowsReversed(f, page_template) ==
    LET coordinates == page_template.members.coordinates.items
        n == Len(coordinates)
    IN  [j \in 1 .. n |->
            ExtractedText(f, page_template.members.page, Rect(coordinates[n + 1 - j]))]

\* lines 50-59 for one template page
PageRows(f, page_template) ==
    LET coordinates == page_template.members.coordinates.items IN
    [j \in 1 .. Len(coordinates) |->
        ExtractedText(f, page_template.members.page, Rect(coordinates[j]))]

\* doc[page_num], line 48
PageInDocument(f, page_num) == 0 <= page_num /\ page_num < f.pages

RaiseAndCarryOn(t, msg) == [t EXCEPT !.pc = "write", !.error = msg]
\* an exception that leaves run() altogether
RaiseOutOfRun(t, msg) == [t EXCEPT !.pc = "return", !.error = msg]
\* an exception leaves the try block for the handler of line 70
Raise(t, msg) == [t EXCEPT !.pc = "except", !.error = msg]

\* for idx, pdf_path in enumerate(self.pdf_paths): the loop header of line 41
NextDocumentPc(t, idx) == IF idx < Len(t.pdf_paths) THEN "open" ELSE "write"
\* for page_template in template: the loop header of line 44
NextPagePc(t, tpos) == IF tpos <= Len(t.template.items) THEN "page" ELSE "sep"

\* lines 24-39; content is what json.load finds in the file at template_path
LoadTemplate(w) ==
    /\ threads[w].pc = "load"
    /\ \E content \in TemplatesIn(template_dir) :
          LET t == threads[w]
              r == ValidateTemplate(content)
          IN  threads' = [threads EXCEPT ![w] =
                 IF content = Unreadable THEN Raise(t, MsgJson)
                 ELSE IF r # OK THEN Raise([t EXCEPT !.template = content], r)
                 ELSE [t EXCEPT !.template = content, !.data = <<>>,
                                !.idx = 0, !.pc = NextDocumentPc(t, 0)]]
    /\ UNCHANGED <<started, self_thread, gui_queue, progress_bar, success_boxes, template_dir,
                 editor_vars, validated>>

\* line 42, right-hand side: Document(pdf_path); n is the page count of the
\* file at that path
OpenDocument(w) ==
    /\ threads[w].pc = "open"
    /\ \E n \in PageCounts :
          LET t == threads[w]
              f == DocFile(t.pdf_paths[t.idx + 1], n)
          IN  threads' = [threads EXCEPT ![w] =
                 IF f.pages = 0
                 THEN Raise([t EXCEPT !.open_calls = @ + 1], MsgOpen)
                 ELSE [t EXCEPT !.fresh = f, !.opened = @ \cup {f.path},
                                !.open_calls = @ + 1, !.pc = "bind"]]
    /\ UNCHANGED <<started, self_thread, gui_queue, progress_bar, success_boxes, template_dir,
                 editor_vars, validated>>

\* line 42, the assignment: `doc` is rebound and the Document it referred to
\* loses its last reference, which closes it
BindDocument(w) ==
    /\ threads[w].pc = "bind"
    /\ LET t == threads[w] IN
       threads' = [threads EXCEPT ![w] =
           [t EXCEPT !.doc = t.fresh, !.fresh = NoDoc,
                     !.opened = @ \ {t.doc.path},
                     !.tpos = 1, !.pc = NextPagePc(t, 1)]]
    /\ UNCHANGED <<started, self_thread, gui_queue, progress_bar, success_boxes, template_dir,
                 editor_vars, validated>>

\* lines 44-59 for one template page
ExtractPage(w) ==
    /\ threads[w].pc = "page"
    /\ LET t == threads[w]
           page_template == t.template.items[t.tpos]
       IN  threads' = [threads EXCEPT ![w] =
              IF ~PageInDocument(t.doc, page_template.members.page)
              THEN Raise(t, MsgPageIndex)
              ELSE [t EXCEPT !.data = @ \o PageRows(t.doc, page_template),
                             !.tpos = @ + 1, !.pc = NextPagePc(t, t.tpos + 1)]]
    /\ UNCHANGED <<started, self_thread, gui_queue, progress_bar, success_boxes, template_dir,
                 editor_vars, validated>>

\* lines 62-64
EndDocument(w) ==
    /\ threads[w].pc = "sep"
    /\ LET t == threads[w]
           s == ProgressSignal(w, Percent(t.idx + 1, Len(t.pdf_paths)))
       IN  /\ threads' = [threads EXCEPT ![w] =
                [t EXCEPT !.data = Append(@, EmptyRow),
                          !.signals = Append(@, s),
                          !.idx = @ + 1, !.tpos = 0,
                          !.pc = NextDocumentPc(t, t.idx + 1)]]
           /\ gui_queue' = Append(gui_queue, s)
    /\ UNCHANGED <<started, self_thread, progress_bar, success_boxes, template_dir,
                 editor_vars, validated>>

\* lines 67-68: to_excel writes the rows, or raises
WriteOutput(w) ==
    /\ threads[w].pc = "write"
    /\ LET t == threads[w] IN
       \E ok \in BOOLEAN :
          threads' = [threads EXCEPT ![w] =
              IF ok THEN [t EXCEPT !.output = Written(t.data), !.pc = "finish"]
              ELSE Raise(t, MsgWrite)]
    /\ UNCHANGED <<started, self_thread, gui_queue, progress_bar, success_boxes, template_dir,
                 editor_vars, validated>>

\* lines 70-71: print(f"Error: {e}")
HandleException(w) ==
    /\ threads[w].pc = "except"
    /\ threads' = [threads EXCEPT ![w].pc = "finish"]
    /\ UNCHANGED <<started, self_thread, gui_queue, progress_bar, success_boxes, template_dir,
                 editor_vars, validated>>

\* line 73
EmitFinished(w) ==
    /\ threads[w].pc = "finish"
    /\ threads' = [threads EXCEPT ![w].signals = Append(@, FinishedSignal(w)),
                                  ![w].pc = "return"]
    /\ gui_queue' = Append(gui_queue, FinishedSignal(w))
    /\ UNCHANGED <<started, self_thread, progress_bar, success_boxes, template_dir,
                 editor_vars, validated>>

\* run() returns: its frame dies and with it the last reference to `doc`
ReturnFromRun(w) ==
    /\ threads[w].pc = "return"
    /\ threads' = [threads EXCEPT ![w].doc = NoDoc, ![w].fresh = NoDoc,
                                  ![w].opened = {}, ![w].pc = "done"]
    /\ UNCHANGED <<started, self_thread, gui_queue, progress_bar, success_boxes, template_dir,
                 editor_vars, validated>>

(***************************************************************************)
(* The front end's side of a run.                                          *)
(***************************************************************************)
\* lines 156-172; a cancelled dialog returns without any effect
process_files(pdf_paths) ==
    /\ started < MaxRuns
    /\ started' = started + 1
    /\ self_thread' = started + 1
    /\ threads' = [threads EXCEPT ![started + 1] = NewThread(pdf_paths)]
    /\ UNCHANGED <<gui_queue, progress_bar, success_boxes, template_dir,
                 editor_vars, validated>>

\* line 170: thread.progress is connected to progress_bar.setValue
DeliverProgress ==
    /\ gui_queue # <<>>
    /\ Head(gui_queue).sig = "progress"
    /\ progress_bar' = Head(gui_queue).value
    /\ gui_queue' = Tail(gui_queue)
    /\ UNCHANGED <<threads, started, self_thread, success_boxes, template_dir,
                 editor_vars, validated>>

\* lines 171, 174-176
processing_finished ==
    /\ gui_queue # <<>>
    /\ Head(gui_queue).sig = "finished"
    /\ success_boxes' = [success_boxes EXCEPT ![Head(gui_queue).run] = @ + 1]
    /\ progress_bar' = 0
    /\ gui_queue' = Tail(gui_queue)
    /\ UNCHANGED <<threads, started, self_thread, template_dir, editor_vars, validated>>

NotValidated == [input |-> NoTemplate, result |-> "pending"]

WorkerIdleInit ==
    /\ gui_queue = <<>>
    /\ progress_bar = 0
    /\ success_boxes = [w \in Runs |-> 0]

NoPos == <<>>

\* lines 86-90, 142-144
EditorInit ==
    /\ pdf_document = 0
    /\ current_page_index = 0
    /\ selected_areas = <<>>
    /\ rect_items = <<>>
    /\ rect_list = <<>>
    /\ scene_labels = <<>>
    /\ scale_factor = <<1, 1>>
    /\ start_pos = NoPos
    /\ is_shift_pressed = FALSE
    /\ remove_outcome = "none"
    /\ saved_file = NoTemplate

(***************************************************************************)
(* SpecRun: one thread, started on any template file and any selection of  *)
(* documents, runs to its end.                                             *)
(***************************************************************************)
InitRun ==
    /\ \E paths \in PathLists :
          threads = [w \in Runs |-> IF w = 1 THEN NewThread(paths) ELSE Idle]
    /\ template_dir = "any"
    /\ started = 1
    /\ self_thread = 1
    /\ WorkerIdleInit
    /\ EditorInit
    /\ validated = NotValidated

RunStep(w) ==
    \/ LoadTemplate(w)
    \/ OpenDocument(w)
    \/ BindDocument(w)
    \/ ExtractPage(w)
    \/ EndDocument(w)
    \/ WriteOutput(w)
    \/ HandleException(w)
    \/ EmitFinished(w)
    \/ ReturnFromRun(w)

NextRun == \E w \in Runs : RunStep(w)

SpecRun == InitRun /\ [][NextRun]_vars

\* FairRun: one thread, started on a short template file and any selection
\* of documents; a started QThread is scheduled until run() returns
InitShortRun ==
    /\ \E paths \in PathLists :
          threads = [w \in Runs |-> IF w = 1 THEN NewThread(paths) ELSE Idle]
    /\ template_dir = "short"
    /\ started = 1
    /\ self_thread = 1
    /\ WorkerIdleInit
    /\ EditorInit
    /\ validated = NotValidated

FairRun == InitShortRun /\ [][NextRun]_vars /\ WF_vars(NextRun)


(***************************************************************************)
(* SpecApp: the front end starts runs with process_files while earlier     *)
(* runs execute, and receives their signals.                               *)
(***************************************************************************)

InitApp ==
    /\ threads = [w \in Runs |-> Idle]
    /\ template_dir = "samples"
    /\ started = 0
    /\ self_thread = 0
    /\ WorkerIdleInit
    /\ EditorInit
    /\ validated = NotValidated

NextApp ==
    \/ \E paths \in PathLists : process_files(paths)
    \/ \E w \in Runs : RunStep(w)
    \/ DeliverProgress
    \/ processing_finished

SpecApp == InitApp /\ [][NextApp]_vars

(***************************************************************************)
(* SpecValidate: the validation of lines 27-37 applied to any value        *)
(* json.load can return.                                                   *)
(***************************************************************************)
AnyAreas ==
    {Scalar, Dict(FullArea(1)), Dict(Restrict(FullArea(1), {"x", "y", "width"}))}
\* the values a page element can be, by the number of areas it lists
AnyPagesOf(k) ==
    {Dict([page |-> 0, coordinates |-> List(c)]) : c \in [1 .. k -> AnyAreas]}
    \cup (IF k > 0 THEN {}
          ELSE {Scalar, Dict(EmptyMembers), Dict([page |-> 0]),
                Dict([coordinates |-> List(<<>>)]),
                Dict([page |-> 0, coordinates |-> Scalar])})
\* the JSON values of at most n pages and a areas
TemplateValues(n, a) ==
    {Scalar, Dict(EmptyMembers)}
    \cup {List(ps) : ps \in PageSeqs([k \in 0 .. a |-> AnyPagesOf(k)], n, a)}

InitValidate ==
    /\ threads = [w \in Runs |-> Idle]
    /\ template_dir = "samples"
    /\ started = 0
    /\ self_thread = 0
    /\ WorkerIdleInit
    /\ EditorInit
    /\ \E t \in TemplateValues(MaxPages, MaxAreas) : validated = [input |-> t, result |-> "pending"]

ApplyValidate ==
    /\ validated.result = "pending"
    /\ validated' = [validated EXCEPT !.result = ValidateTemplate(validated.input)]
    /\ UNCHANGED <<worker_vars, editor_vars>>

NextValidate == ApplyValidate

SpecValidate == InitValidate /\ [][NextValidate]_vars


(***************************************************************************)
(* PDFMarkupTool, the region editor.  Scene and document coordinates are   *)
(* exact fractions <<numerator, denominator>> in lowest terms.             *)
(***************************************************************************)
RECURSIVE GCD(_, _)
GCD(a, b) == IF b = 0 THEN a ELSE GCD(b, a % b)
Frac(n, d) == LET g == GCD(n, d) IN <<n \div g, d \div g>>
FracMul(a, b) == Frac(a[1] * b[1], a[2] * b[2])
FracDiv(a, b) == Frac(a[1] * b[2], a[2] * b[1])

RECURSIVE Pow10(_)
Pow10(k) == IF k = 0 THEN 1 ELSE 10 * Pow10(k - 1)

Min(a, b) == IF a <= b THEN a ELSE b
Abs(a) == IF a >= 0 THEN a ELSE -a

\* the scene points where a drag starts, and where it ends: above-left of
\* the start or below-right of it
PressPoints == {<<50, 50>>}
ReleasePoints == {<<10, 10>>, <<90, 90>>}

\* QRectF(start_pos, end_pos) as constructed: the width and the height are
\* the differences of the corners
RectOfCorners(p, q) ==
    [x |-> <<p[1], 1>>, y |-> <<p[2], 1>>,
     width |-> <<q[1] - p[1], 1>>, height |-> <<q[2] - p[2], 1>>]

\* QRectF(start_pos, end_pos).normalized(), lines 273 and 283
NormalizedRect(p, q) ==
    [x |-> <<Min(p[1], q[1]), 1>>, y |-> <<Min(p[2], q[2]), 1>>,
     width |-> <<Abs(q[1] - p[1]), 1>>, height |-> <<Abs(q[2] - p[2]), 1>>]

\* lines 197-202
ScaleRect(r, s) ==
    [x |-> FracMul(r.x, s), y |-> FracMul(r.y, s),
     width |-> FracMul(r.width, s), height |-> FracMul(r.height, s)]
\* the scene rectangle kept as the region
KeepScale(r, s) == r
\* lines 284-289
UnscaleRect(r, s) ==
    [x |-> FracDiv(r.x, s), y |-> FracDiv(r.y, s),
     width |-> FracDiv(r.width, s), height |-> FracDiv(r.height, s)]

\* a row of rect_list: "Frame №{index + 1}" and a button "Remove №{index + 1}"
\* whose lambda captured i=index (lines 220-222, 310-312)
ListRow(index) == [label |-> index + 1, index |-> index]

\* show_page, lines 178-230, on the state its caller leaves: the document,
\* the regions, rect_items and the scale factor
show_page(doc, areas, items, labels, scale) ==
    IF doc = 0
    THEN /\ rect_items' = items
         /\ scene_labels' = labels
         /\ UNCHANGED rect_list
    ELSE /\ rect_items' = [i \in 1 .. Len(areas) |-> ScaleRect(areas[i], scale)]
         /\ scene_labels' = [i \in 1 .. Len(areas) |-> i]
         /\ rect_list' = [i \in 1 .. Len(areas) |-> ListRow(i - 1)]

\* lines 149-154; n is the page count of the chosen file
load_pdf(n) ==
    /\ pdf_document' = n
    /\ current_page_index' = 0
    /\ show_page(n, selected_areas, rect_items, scene_labels, scale_factor)
    /\ UNCHANGED <<selected_areas, scale_factor, start_pos, is_shift_pressed,
                   remove_outcome, saved_file,
                   worker_vars, validated>>

\* the guards of lines 233 and 238
HasPrevPage(index) == index > 0
HasNextPageInclusive(index, n) == index <= n - 1
HasNextPage(index, n) == index < n - 1

\* lines 232-235
prev_page ==
    /\ IF HasPrevPage(current_page_index)
       THEN /\ current_page_index' = current_page_index - 1
            /\ show_page(pdf_document, selected_areas, rect_items, scene_labels,
                         scale_factor)
       ELSE UNCHANGED <<current_page_index, rect_items, rect_list, scene_labels>>
    /\ UNCHANGED <<pdf_document, selected_areas, scale_factor, start_pos,
                   is_shift_pressed, remove_outcome, saved_file,
                   worker_vars, validated>>

\* lines 237-240; without a document len(None) raises and nothing changes
next_page ==
    /\ IF pdf_document # 0 /\ HasNextPage(current_page_index, pdf_document)
       THEN /\ current_page_index' = current_page_index + 1
            /\ show_page(pdf_document, selected_areas, rect_items, scene_labels,
                         scale_factor)
       ELSE UNCHANGED <<current_page_index, rect_items, rect_list, scene_labels>>
    /\ UNCHANGED <<pdf_document, selected_areas, scale_factor, start_pos,
                   is_shift_pressed, remove_outcome, saved_file,
                   worker_vars, validated>>

\* lines 252-260 with the Control modifier: up multiplies by 1.1, down by 0.9
wheelEvent(up) ==
    /\ scale_factor[2] < Pow10(MaxZoom)
    /\ scale_factor' = FracMul(scale_factor, IF up THEN <<11, 10>> ELSE <<9, 10>>)
    /\ show_page(pdf_document, selected_areas, rect_items, scene_labels, scale_factor')
    /\ UNCHANGED <<pdf_document, current_page_index, selected_areas, start_pos,
                   is_shift_pressed, remove_outcome, saved_file,
                   worker_vars, validated>>

\* lines 242-245
keyPressEvent ==
    /\ ~is_shift_pressed
    /\ is_shift_pressed' = TRUE
    /\ UNCHANGED <<pdf_document, current_page_index, selected_areas, rect_items,
                   rect_list, scene_labels, scale_factor, start_pos, remove_outcome,
                   saved_file,
                   worker_vars, validated>>

\* lines 247-250
keyReleaseEvent ==
    /\ is_shift_pressed
    /\ is_shift_pressed' = FALSE
    /\ UNCHANGED <<pdf_document, current_page_index, selected_areas, rect_items,
                   rect_list, scene_labels, scale_factor, start_pos, remove_outcome,
                   saved_file,
                   worker_vars, validated>>

\* lines 264-266
MouseButtonPress(p) ==
    /\ is_shift_pressed
    /\ start_pos' = p
    /\ UNCHANGED <<pdf_document, current_page_index, selected_areas, rect_items,
                   rect_list, scene_labels, scale_factor, is_shift_pressed,
                   remove_outcome, saved_file,
                   worker_vars, validated>>

\* lines 280-323
MouseButtonRelease(p) ==
    /\ is_shift_pressed
    /\ start_pos # NoPos
    /\ Len(selected_areas) < MaxRegions
    /\ Len(rect_list) < MaxRegions
    /\ LET rect == NormalizedRect(start_pos, p)
           index == Len(selected_areas)     \* len(self.selected_areas) - 1 after the append
       IN  /\ selected_areas' = Append(selected_areas, UnscaleRect(rect, scale_factor))
           /\ rect_items' = Append(rect_items, rect)
           /\ scene_labels' = Append(scene_labels, index + 1)
           /\ rect_list' = Append(rect_list, ListRow(index))
    /\ start_pos' = NoPos
    /\ UNCHANGED <<pdf_document, current_page_index, scale_factor, is_shift_pressed,
                   remove_outcome, saved_file,
                   worker_vars, validated>>

\* del s[index] for 0 <= index < len(s)
DeleteAt(s, index) == SubSeq(s, 1, index) \o SubSeq(s, index + 2, Len(s))

\* the guard of line 328
InBoundsInclusive(index, n) == 0 <= index /\ index <= n
InBounds(index, n) == 0 <= index /\ index < n

\* lines 327-337.  Past the guard, indexing a list beyond its end raises
\* IndexError, which ends the handler where it stands.
remove_rect(index) ==
    /\ IF ~InBounds(index, Len(rect_items))
       THEN /\ remove_outcome' = "ignored"
            /\ UNCHANGED <<selected_areas, rect_items, rect_list, scene_labels>>
       ELSE IF index >= Len(rect_items)
       THEN /\ remove_outcome' = "IndexError"
            /\ UNCHANGED <<selected_areas, rect_items, rect_list, scene_labels>>
       ELSE IF index >= Len(selected_areas)
       THEN /\ remove_outcome' = "IndexError"
            /\ rect_items' = DeleteAt(rect_items, index)
            /\ UNCHANGED <<selected_areas, rect_list, scene_labels>>
       ELSE /\ remove_outcome' = "removed"
            /\ selected_areas' = DeleteAt(selected_areas, index)
            /\ show_page(pdf_document, DeleteAt(selected_areas, index),
                         DeleteAt(rect_items, index), scene_labels, scale_factor)
    /\ UNCHANGED <<pdf_document, current_page_index, scale_factor, start_pos,
                   is_shift_pressed, saved_file,
                   worker_vars, validated>>

\* a click on the remove button of row k of rect_list
RemoveClicked(k) == remove_rect(rect_list[k].index)

\* lines 343-350: one area of the template, from the accessors of a QRectF
EncodeRect(rect) ==
    Dict([x |-> rect.x, y |-> rect.y, width |-> rect.width, height |-> rect.height])

\* a template that numbers its page from 1
TemplateDataOneBased(page, areas) ==
    List(<<Dict([page |-> page + 1,
                 coordinates |-> List([i \in 1 .. Len(areas) |-> EncodeRect(areas[i])])])>>)

\* template_data, lines 340-353: a list of one page, the current page index
\* and the regions in sequence order
TemplateData(page, areas) ==
    List(<<Dict([page |-> page,
                 coordinates |-> List([i \in 1 .. Len(areas) |-> EncodeRect(areas[i])])])>>)

\* lines 339-358; chosen: the file dialog returned a path.  json.dump writes
\* the value and json.load reads the same value back (floats are written
\* with repr, which float() inverts).
save_template(chosen) ==
    /\ saved_file' = IF chosen THEN TemplateData(current_page_index, selected_areas)
                               ELSE saved_file
    /\ UNCHANGED <<pdf_document, current_page_index, selected_areas, rect_items,
                   rect_list, scene_labels, scale_factor, start_pos, is_shift_pressed,
                   remove_outcome, worker_vars, validated>>

\* what the worker reads from a loaded template: page['page'] (line 45) and
\* area['x'], area['y'], area['width'], area['height'] (lines 51-56)
DecodedPage(template, i) == template.items[i].members.page
DecodedRegions(template, i) ==
    LET areas == template.items[i].members.coordinates.items
    IN  [j \in 1 .. Len(areas) |->
            LET a == areas[j].members
            IN  [x |-> a.x, y |-> a.y, width |-> a.width, height |-> a.height]]

InitEditor ==
    /\ EditorInit
    /\ threads = [w \in Runs |-> Idle]
    /\ template_dir = "samples"
    /\ started = 0
    /\ self_thread = 0
    /\ WorkerIdleInit
    /\ validated = NotValidated

NextEditor ==
    \/ \E n \in 1 .. MaxPageCount : load_pdf(n)
    \/ prev_page
    \/ next_page
    \/ \E up \in BOOLEAN : wheelEvent(up)
    \/ keyPressEvent
    \/ keyReleaseEvent
    \/ \E p \in PressPoints : MouseButtonPress(p)
    \/ \E p \in ReleasePoints : MouseButtonRelease(p)
    \/ \E k \in DOMAIN rect_list : RemoveClicked(k)

SpecEditor == InitEditor /\ [][NextEditor]_vars

(***************************************************************************)
(* SpecSave: save_template applied to the states of an editor whose        *)
(* regions were drawn at the current zoom factor.                          *)
(***************************************************************************)
\* the zoom factors k wheel events can reach
RECURSIVE ZoomFactors(_)
ZoomFactors(k) ==
    IF k = 0 THEN {<<1, 1>>}
    ELSE ZoomFactors(k - 1)
         \cup {FracMul(s, f) : s \in ZoomFactors(k - 1), f \in {<<11, 10>>, <<9, 10>>}}

\* the zoom factors within the bound on wheel events
ZoomLevels == ZoomFactors(MaxZoom)

\* the rectangles a drag can leave in the scene
DragRects == {NormalizedRect(p, q) : p \in PressPoints, q \in ReleasePoints}

InitSave ==
    /\ \E n \in 0 .. MaxPageCount, s \in ZoomLevels, k \in 0 .. MaxRegions :
          \E rects \in [1 .. k -> DragRects] :
              /\ pdf_document = n
              /\ current_page_index \in 0 .. (IF n = 0 THEN 0 ELSE n - 1)
              /\ scale_factor = s
              /\ selected_areas = [i \in 1 .. k |-> UnscaleRect(rects[i], s)]
              /\ rect_items = rects
              /\ scene_labels = [i \in 1 .. k |-> i]
              /\ rect_list = [i \in 1 .. k |-> ListRow(i - 1)]
    /\ start_pos = NoPos
    /\ is_shift_pressed = FALSE
    /\ remove_outcome = "none"
    /\ saved_file = NoTemplate
    /\ threads = [w \in Runs |-> Idle]
    /\ template_dir = "samples"
    /\ started = 0
    /\ self_thread = 0
    /\ WorkerIdleInit
    /\ validated = NotValidated

NextSave == \E chosen \in BOOLEAN : save_template(chosen)

SpecSave == InitSave /\ [][NextSave]_vars

(***************************************************************************)
(* Claims about a run.                                                     *)
(***************************************************************************)
\* every region of a template, in template-page order and region order
RECURSIVE RegionsOf(_)
RegionsOf(pages) ==
    IF pages = <<>> THEN <<>>
    ELSE LET m == Head(pages).members IN
         [j \in 1 .. Len(m.coordinates.items) |->
             [page |-> m.page, area |-> m.coordinates.items[j].members]]
         \o RegionsOf(Tail(pages))

\* the row expected at position n of the output of thread t
ExpectedRow(t, n) ==
    LET regions == RegionsOf(t.template.items)
        R == Len(regions)
        d == ((n - 1) \div (R + 1)) + 1
        k == ((n - 1) % (R + 1)) + 1
    IN  IF k = R + 1 THEN <<>>
        ELSE LET a == regions[k].area IN
             <<t.pdf_paths[d], regions[k].page,
               a.x, a.y, a.x + a.width, a.y + a.height>>

RowsInOrder(t, rows) ==
    LET R == Len(RegionsOf(t.template.items)) IN
    /\ Len(rows) = Len(t.pdf_paths) * (R + 1)
    /\ \A n \in 1 .. Len(rows) : rows[n] = ExpectedRow(t, n)

\* C1: the rows handed to the output of a run that completes without error
\* are, for each document in input order, one row per region in
\* template-page order and region order, then one empty separator row.
C1_RowOrder ==
    \A w \in Runs :
        LET t == threads[w] IN
        /\ t.pc = "write" => RowsInOrder(t, t.data)
        /\ t.output.exists => RowsInOrder(t, t.output.rows)

C1_Witness ==
    \E w \in Runs :
        LET t == threads[w] IN
        /\ t.output.exists
        /\ Len(t.pdf_paths) = 2
        /\ Len(t.template.items) = 1
        /\ Len(t.template.items[1].members.coordinates.items) = 2
        /\ t.template.items[1].members.coordinates.items[1]
              # t.template.items[1].members.coordinates.items[2]
        /\ Len(t.output.rows) = 6
        /\ t.output.rows[3] = <<>>
        /\ t.output.rows[6] = <<>>

Failed(t) == t.error # ""

\* C2: all or nothing: a run in which an error occurred writes nothing, and
\* the destination is written only after every document was processed
\* completely, with all the rows of the run.
C2_AllOrNothing ==
    \A w \in Runs :
        LET t == threads[w] IN
        /\ Failed(t) => ~t.output.exists
        /\ t.output.exists =>
              /\ t.idx = Len(t.pdf_paths)
              /\ t.open_calls = Len(t.pdf_paths)
              /\ t.output.rows = t.data

\* a batch whose first document was processed and whose second document
\* lacks a template page: the run is over and nothing was written
C2_Witness ==
    \E w \in Runs :
        LET t == threads[w] IN
        /\ t.pc = "done"
        /\ t.error = MsgPageIndex
        /\ t.idx = 1
        /\ Len(t.data) >= 2
        /\ ~t.output.exists

ProgressValues(t) ==
    LET ps == SelectSeq(t.signals, LAMBDA s : s.sig = "progress") IN
    [i \in 1 .. Len(ps) |-> ps[i].value]

Separators(rows) == Cardinality({n \in 1 .. Len(rows) : rows[n] = <<>>})

\* C4: a run emits progress once per processed document, right after that
\* document's separator row; the values never decrease; a successful run on
\* N >= 1 documents has emitted exactly N values and the last one is 100.
C4_Progress ==
    \A w \in Runs :
        LET t == threads[w]
            pv == ProgressValues(t)
        IN  /\ Len(pv) = t.idx
            /\ Len(pv) = Separators(t.data)
            /\ \A i \in 1 .. Len(pv) - 1 : pv[i] <= pv[i + 1]
            /\ (t.pc \in {"write", "finish", "return", "done"} /\ ~Failed(t)) =>
                  /\ Len(pv) = Len(t.pdf_paths)
                  /\ pv[Len(pv)] = 100

C4_Witness ==
    \E w \in Runs :
        LET t == threads[w] IN
        /\ t.output.exists
        /\ Len(t.pdf_paths) = 2
        /\ ProgressValues(t) = <<50, 100>>

\* 100*k/n rounded to the nearest integer
RoundedPercent(k, n) == (200 * k + n) \div (2 * n)

\* C12: the progress value emitted after the k-th of N documents is 100*k/N
\* rounded to the nearest integer.
C12_RoundedProgress ==
    \A w \in Runs :
        LET t == threads[w]
            pv == ProgressValues(t)
        IN  \A k \in 1 .. Len(pv) : pv[k] = RoundedPercent(k, Len(t.pdf_paths))

\* the positions of the finished signal among the signals of a thread
FinishedAt(t) == {i \in 1 .. Len(t.signals) : t.signals[i].sig = "finished"}

\* C15: every started run ends, whatever its path; when it has ended it has
\* emitted finished exactly once, as its last signal; before that it has
\* emitted no finished at all.
C15_FinishedOnce ==
    /\ [](\A w \in Runs :
             LET t == threads[w] IN
             /\ t.pc \in {"return", "done"} => FinishedAt(t) = {Len(t.signals)}
             /\ t.pc \notin {"return", "done"} => FinishedAt(t) = {})
    /\ <>(\A w \in Runs : threads[w].pc \in {"none", "done"})

\* a run of two documents has ended on a document error, after one progress
\* value and then finished
C15_Witness ==
    \E w \in Runs :
        LET t == threads[w] IN
        /\ t.pc = "done"
        /\ t.error \in {MsgOpen, MsgPageIndex}
        /\ Len(t.signals) = 2
        /\ t.signals[1].sig = "progress"
        /\ t.signals[2].sig = "finished"

\* the structural rules of a template, stated on the value
AreaWellFormed(a) ==
    a.type = "dict" /\ {"x", "y", "width", "height"} \subseteq DOMAIN a.members
PageHasKeys(p) ==
    p.type = "dict" /\ {"page", "coordinates"} \subseteq DOMAIN p.members
WellFormed(v) ==
    /\ v.type = "list"
    /\ \A i \in DOMAIN v.items :
          /\ PageHasKeys(v.items[i])
          /\ v.items[i].members.coordinates.type = "list"
          /\ \A j \in DOMAIN v.items[i].members.coordinates.items :
                AreaWellFormed(v.items[i].members.coordinates.items[j])

\* C5: when the template file violates a structural rule, wherever in the
\* template, the run opens no document, extracts no row, emits no progress
\* and writes nothing.
C5_ValidateFirst ==
    \A w \in Runs :
        LET t == threads[w] IN
        (t.template # NoTemplate /\ ~WellFormed(t.template)) =>
            /\ t.open_calls = 0
            /\ t.opened = {}
            /\ t.data = <<>>
            /\ ProgressValues(t) = <<>>
            /\ ~t.output.exists
            /\ t.pc \in {"except", "finish", "return", "done"}

\* a template of two pages whose first page is sound and whose last area
\* lacks a key: the run has ended without opening anything
C5_Witness ==
    \E w \in Runs :
        LET t == threads[w] IN
        /\ t.pc = "done"
        /\ t.template.type = "list"
        /\ Len(t.template.items) = 2
        /\ WellFormed(List(<<t.template.items[1]>>))
        /\ t.error = MsgAreaKeys
        /\ t.open_calls = 0

(***************************************************************************)
(* Claims about the validation.                                            *)
(***************************************************************************)
BreaksNotList(v) == v.type # "list"
BreaksPageKeys(v) ==
    v.type = "list" /\ \E i \in DOMAIN v.items : ~PageHasKeys(v.items[i])
BreaksCoordinatesList(v) ==
    /\ v.type = "list"
    /\ \E i \in DOMAIN v.items :
          PageHasKeys(v.items[i]) /\ v.items[i].members.coordinates.type # "list"
BreaksAreaKeys(v) ==
    /\ v.type = "list"
    /\ \E i \in DOMAIN v.items :
          /\ PageHasKeys(v.items[i])
          /\ v.items[i].members.coordinates.type = "list"
          /\ \E j \in DOMAIN v.items[i].members.coordinates.items :
                ~AreaWellFormed(v.items[i].members.coordinates.items[j])

\* C6: the validation accepts a value exactly when it is a list of dicts
\* with `page` and `coordinates`, every `coordinates` a list of dicts with
\* x, y, width and height; a rejection names a rule the value violates, and
\* the four reasons are pairwise distinct.
C6_Validation ==
    validated.result # "pending" =>
        LET v == validated.input
            r == validated.result
        IN  /\ r \in {OK, MsgNotList, MsgPageKeys, MsgCoordsNotList, MsgAreaKeys}
            /\ (r = OK) <=> WellFormed(v)
            /\ r = MsgNotList => BreaksNotList(v)
            /\ r = MsgPageKeys => BreaksPageKeys(v)
            /\ r = MsgCoordsNotList => BreaksCoordinatesList(v)
            /\ r = MsgAreaKeys => BreaksAreaKeys(v)
            /\ Cardinality({OK, MsgNotList, MsgPageKeys, MsgCoordsNotList, MsgAreaKeys}) = 5

\* the value [{"page": 0, "coordinates": [{"x":1,"y":1,"width":1}]}] is
\* rejected for its area
C6_Witness ==
    /\ validated.input =
          List(<<Dict([page |-> 0,
                       coordinates |-> List(<<Dict([x |-> 1, y |-> 1, width |-> 1])>>)])>>)
    /\ validated.result = MsgAreaKeys

(***************************************************************************)
(* Claims the code does not meet.                                          *)
(***************************************************************************)
\* C3: a run that ends in an error is told apart from a successful one: the
\* success notification is shown only for a run that wrote its output.
C3_FailureSurfaced ==
    \A w \in Runs : success_boxes[w] > 0 => threads[w].output.exists

Running(t) == t.pc \notin {"none", "done"}

\* C9: at most one extraction worker is in flight at any time.
C9_SingleWorker ==
    Cardinality({w \in Runs : Running(threads[w])}) <= 1

\* C10: at most one document handle is open at any point of a run, none is
\* open when the next document is about to be opened, and none is open
\* when the run has ended.
C10_HandlesScoped ==
    \A w \in Runs :
        LET t == threads[w] IN
        /\ Cardinality(t.opened) <= 1
        /\ t.pc = "open" => t.opened = {}
        /\ t.pc = "done" => t.opened = {}

(***************************************************************************)
(* Claims about the region editor.                                         *)
(***************************************************************************)
\* C7: renumbering by position: the list shows one row per region, the
\* labels of the rows and of the scene are 1..n in sequence order, and the
\* remove control of the row labelled k removes the region at position k.
C7_Renumbering ==
    /\ Len(rect_list) = Len(selected_areas)
    /\ \A k \in DOMAIN rect_list :
          rect_list[k].label = k /\ rect_list[k].index = k - 1
    /\ scene_labels = [i \in 1 .. Len(selected_areas) |-> i]

\* a remove control is clicked whose index lies outside 0..n-1
OutOfRangeRemove(k) ==
    /\ rect_list[k].index \notin 0 .. Len(selected_areas) - 1
    /\ RemoveClicked(k)

\* C8 as stated: remove(index) with an index outside 0..n-1 reports an
\* IndexError and leaves the region collection unchanged.
C8_IndexError ==
    [][\A k \in DOMAIN rect_list :
          OutOfRangeRemove(k) =>
              remove_outcome' = "IndexError" /\ selected_areas' = selected_areas]_vars

\* C8 as amended: remove_rect with an index outside 0..n-1 is ignored
\* silently: no error is reported and the region collection, the scene
\* items and the list are left unchanged.
C8_SilentNoOp ==
    [][\A k \in DOMAIN rect_list :
          OutOfRangeRemove(k) =>
              /\ remove_outcome' = "ignored"
              /\ selected_areas' = selected_areas
              /\ rect_items' = rect_items
              /\ rect_list' = rect_list]_vars

\* an out-of-range removal has happened while regions were present
C8_Witness ==
    /\ remove_outcome = "ignored"
    /\ selected_areas # <<>>

\* C11: a change of page (prev_page, next_page, load_pdf) discards the
\* regions, unless they were persisted under the page they were drawn on.
C11_PageScoped ==
    [][(prev_page \/ next_page \/ \E n \in 1 .. MaxPageCount : load_pdf(n)) =>
          \/ selected_areas' = <<>> /\ rect_items' = <<>>
          \/ saved_file = TemplateData(current_page_index, selected_areas)]_vars

(***************************************************************************)
(* Claims about save_template.                                             *)
(***************************************************************************)
\* C13: the template save_template writes passes the validation, holds one
\* page, decodes to the current page index and to the regions in sequence
\* order, and saving leaves the regions unchanged.
C13_RoundTrip ==
    [][\A chosen \in BOOLEAN :
          (chosen /\ save_template(chosen)) =>
              /\ ValidateTemplate(saved_file') = OK
              /\ Len(saved_file'.items) = 1
              /\ DecodedPage(saved_file', 1) = current_page_index
              /\ DecodedRegions(saved_file', 1) = selected_areas
              /\ selected_areas' = selected_areas]_vars

\* a template was saved from page 1 with two regions drawn while zoomed
C13_Witness ==
    /\ saved_file # NoTemplate
    /\ current_page_index = 1
    /\ Len(selected_areas) = 2
    /\ scale_factor # <<1, 1>>
    /\ Len(saved_file.items[1].members.coordinates.items) = 2

\* the empty collection was saved
C13_WitnessEmpty ==
    /\ saved_file # NoTemplate
    /\ selected_areas = <<>>

\* C14: every region of the collection, and every scene rectangle, has a
\* width and a height that are not negative, whatever the direction of the
\* drag and the zoom factor; the drag from (50,50) to (10,10) at zoom 1
\* appends the region x = 10, y = 10, width = 40, height = 40.
C14_Normalized ==
    /\ [](\A i \in DOMAIN selected_areas :
             LET r == selected_areas[i] IN
             /\ r.width[1] >= 0 /\ r.width[2] > 0
             /\ r.height[1] >= 0 /\ r.height[2] > 0)
    /\ [](\A i \in DOMAIN rect_items :
             rect_items[i].width[1] >= 0 /\ rect_items[i].height[1] >= 0)
    /\ [][(/\ start_pos = <<50, 50>>
           /\ scale_factor = <<1, 1>>
           /\ MouseButtonRelease(<<10, 10>>)) =>
              selected_areas' =
                  Append(selected_areas,
                         [x |-> <<10, 1>>, y |-> <<10, 1>>,
                          width |-> <<40, 1>>, height |-> <<40, 1>>])]_vars

\* the collection holds the region of the drag from (50,50) to (10,10) at
\* zoom 1 and the region of the same drag made at zoom 1.1
C14_Witness ==
    /\ \E i \in DOMAIN selected_areas :
          selected_areas[i] = [x |-> <<10, 1>>, y |-> <<10, 1>>,
                               width |-> <<40, 1>>, height |-> <<40, 1>>]
    /\ \E j \in DOMAIN selected_areas :
          selected_areas[j] = [x |-> <<100, 11>>, y |-> <<100, 11>>,
                               width |-> <<400, 11>>, height |-> <<400, 11>>]

\* C16: rect_items and selected_areas have the same length, and the item at
\* position i is the rectangle of the region at position i: drawn at the
\* current zoom factor when a document is loaded, at some zoom factor
\* otherwise.
C16_Aligned ==
    /\ Len(rect_items) = Len(selected_areas)
    /\ \A i \in DOMAIN rect_items :
          /\ i \in DOMAIN selected_areas
          /\ IF pdf_document # 0
             THEN rect_items[i] = ScaleRect(selected_areas[i], scale_factor)
             ELSE \E s \in ZoomLevels :
                     rect_items[i] = ScaleRect(selected_areas[i], s)

\* with a document loaded and the view zoomed, a region was removed from
\* between two others
C16_Witness ==
    /\ pdf_document # 0
    /\ scale_factor # <<1, 1>>
    /\ remove_outcome = "removed"
    /\ Len(selected_areas) = 2
    /\ selected_areas[1] # selected_areas[2]

\* C17: with a document loaded the current page index is one of its pages;
\* prev_page at the first page and next_page at the last page leave it
\* unchanged, and load_pdf sets it to 0.
C17_PageIndex ==
    /\ [](pdf_document # 0 =>
             0 <= current_page_index /\ current_page_index <= pdf_document - 1)
    /\ [][(current_page_index = 0 /\ prev_page) => current_page_index' = 0]_vars
    /\ [][(pdf_document # 0 /\ current_page_index = pdf_document - 1 /\ next_page) =>
              current_page_index' = current_page_index]_vars
    /\ [][\A n \in 1 .. MaxPageCount : load_pdf(n) => current_page_index' = 0]_vars

\* the last page of a document of several pages is shown
C17_Witness ==
    /\ pdf_document > 1
    /\ current_page_index = pdf_document - 1

=============================================================================
